---- MODULE Spec2Model ----
(***************************************************************************)
(* Model of leflon/qr: the BitBuffer bit-stream builder (BitBuffer.ts),   *)
(* the alphanumeric encoder (encoding.ts) and the GF(2^8) arithmetic      *)
(* (types.ts, class GaloisField).                                          *)
(***************************************************************************)
EXTENDS Integers, Sequences, FiniteSets, TLC

VARIABLES
    buffer,       \* BitBuffer.buffer: the Uint8Array, as a sequence of bytes (index k is buffer[k+1])
    bytePointer,  \* BitBuffer.bytePointer
    bitPointer,   \* BitBuffer.bitPointer
    appended,     \* history: the bits the appendBits calls so far were asked to append, in order
    fresh,        \* history: TRUE while only appendBits has been called on the buffer
    lastOp,       \* history: the last BitBuffer operation called
    data,         \* encodeAlphanumeric: the input string, a sequence of characters
    version,      \* encodeAlphanumeric: the version argument
    level,        \* encodeAlphanumeric: the errorCorrectionLevel argument
    pc,           \* encodeAlphanumeric / encode: the position in the function
    idx,          \* encodeAlphanumeric: the loop variable i
    outcome,      \* encodeAlphanumeric: "none", "returned" or the kind of Error thrown
    call,         \* GaloisField: the pending call [op, a, b]; getCharacterCountIndicatorSize: [op, version, encoding]
    result        \* what the call did: [kind |-> "none" | "return" | "throw", value]

vars == <<buffer, bytePointer, bitPointer, appended, fresh, lastOp,
          data, version, level, pc, idx, outcome, call, result>>

bbVars == <<buffer, bytePointer, bitPointer, appended, fresh, lastOp>>
encVars == <<data, version, level, pc, idx, outcome>>
gfVars == <<call, result>>

(***************************************************************************)
(* Bounds of the model.                                                    *)
(***************************************************************************)
\* largest initialSize given to the BitBuffer constructor
MaxCap == 3
\* largest value given to appendBits
MaxValue == 3
\* largest explicit length given to appendBits
MaxLen == 3
\* appendBits is not called once the cursor has passed this many bits
MaxBits == 9
\* longest input string given to encodeAlphanumeric (a short pattern repeated)
MaxDataLen == 22
\* longest input string whose characters are all chosen freely
MaxFreeLen == 3
\* largest exponent given to GaloisField.power
MaxExponent == 256

\* how many integer versions below 1 and above 40 a call may be given
VersionMargin == 5

(***************************************************************************)
(* JavaScript values: a number, or one of the values that are no byte.     *)
(***************************************************************************)
JsNum(n) == [type |-> "number", n |-> n]
undefined == [type |-> "undefined", n |-> 0]
NaN == [type |-> "NaN", n |-> 0]
NegInfinity == [type |-> "-Infinity", n |-> 0]

\* !v for a number or undefined
Falsy(v) == v.type \in {"undefined", "NaN"} \/ (v.type = "number" /\ v.n = 0)

RECURSIVE Pow2(_)
Pow2(n) == IF n <= 0 THEN 1 ELSE 2 * Pow2(n - 1)

\* Math.ceil(x / 8) for an integer x
CeilDiv8(x) == (x + 7) \div 8

(***************************************************************************)
(* BitBuffer                                                               *)
(***************************************************************************)
Zeros(n) == [k \in 1..n |-> 0]

\* new BitBuffer(initialSize)
NewBitBuffer(initialSize) ==
    [buffer |-> Zeros(initialSize), bytePointer |-> 0, bitPointer |-> 0]

\* value.toString(2).length for value > 0
RECURSIVE BinaryDigits(_)
BinaryDigits(value) == IF value < 2 THEN 1 ELSE 1 + BinaryDigits(value \div 2)

realLength(value) == IF value = 0 THEN 1 ELSE BinaryDigits(value)

\* ensureCapacity(bitsToAdd): the buffer afterwards
ensureCapacity(bb, bitsToAdd) ==
    LET requiredCapacity == bb.bytePointer + CeilDiv8(bitsToAdd)
    IN  IF requiredCapacity > Len(bb.buffer)
        THEN [bb EXCEPT !.buffer =
                 [k \in 1..requiredCapacity |->
                     IF k <= Len(bb.buffer) THEN bb.buffer[k] ELSE 0]]
        ELSE bb

\* Math.floor(value / Math.pow(2, i)) & 1
BitOf(value, i) == (value \div Pow2(i)) % 2

\* byte | (bit << shift), stored back into a Uint8Array element: the shift count is
\* taken modulo 32 and the stored value modulo 256
OrShifted(byte, bit, shift) ==
    LET s == shift % 32
    IN  IF bit = 1 /\ s <= 7 /\ (byte \div Pow2(s)) % 2 = 0
        THEN byte + Pow2(s)
        ELSE byte

\* one iteration of the loop of appendBits; a write at an index outside the
\* Uint8Array is ignored
WriteBit(bb, bit) ==
    LET k == bb.bytePointer + 1
        written == IF k \in 1..Len(bb.buffer)
                   THEN [bb.buffer EXCEPT ![k] = OrShifted(@, bit, 7 - bb.bitPointer)]
                   ELSE bb.buffer
        bp == bb.bitPointer + 1
    IN  IF bp = 8
        THEN [buffer |-> written, bytePointer |-> bb.bytePointer + 1, bitPointer |-> 0]
        ELSE [buffer |-> written, bytePointer |-> bb.bytePointer, bitPointer |-> bp]

\* for (let i = realLength - 1; i >= 0; i--)
RECURSIVE WriteBits(_, _, _)
WriteBits(bb, value, i) ==
    IF i < 0 THEN bb ELSE WriteBits(WriteBit(bb, BitOf(value, i)), value, i - 1)

\* the padding step of appendBits: the pointer moves past the padding bits
SkipPadding(bb, padding) ==
    LET bp == bb.bitPointer + padding
    IN  IF bp >= 8
        THEN [bb EXCEPT !.bytePointer = @ + (bp \div 8), !.bitPointer = bp % 8]
        ELSE [bb EXCEPT !.bitPointer = bp]

\* the length appendBits works with: a missing (or zero) length is the value's own
EffectiveLength(value, length) == IF length = 0 THEN realLength(value) ELSE length

\* appendBits(value, length); length 0 stands for an omitted length
appendBits(bb, value, length) ==
    LET len == EffectiveLength(value, length)
        grown == ensureCapacity(bb, len)
        padded == SkipPadding(grown, len - realLength(value))
    IN  WriteBits(padded, value, realLength(value) - 1)

\* padByte()
padByte(bb) ==
    IF bb.bitPointer > 0
    THEN [bb EXCEPT !.bitPointer = 0, !.bytePointer = @ + 1]
    ELSE bb

\* constants.ts, PAD_CODEWORDS: the two pad codewords
PAD_CODEWORDS == <<236, 17>>

\* the while loop of fill() with i never advanced: one codeword repeated
RECURSIVE FillLoopSameCodeword(_, _)
FillLoopSameCodeword(bb, i) ==
    IF bb.bytePointer < Len(bb.buffer)
    THEN FillLoopSameCodeword([bb EXCEPT !.buffer[bb.bytePointer + 1] = PAD_CODEWORDS[i + 1],
                                         !.bytePointer = @ + 1],
                              i)
    ELSE bb

\* the while loop of fill()
RECURSIVE FillLoop(_, _)
FillLoop(bb, i) ==
    IF bb.bytePointer < Len(bb.buffer)
    THEN FillLoop([bb EXCEPT !.buffer[bb.bytePointer + 1] = PAD_CODEWORDS[i + 1],
                             !.bytePointer = @ + 1],
                  (i + 1) % 2)
    ELSE bb

\* fill() without its call of padByte(): the pad codewords start in the partial byte
fillUnaligned(bb) == FillLoop(bb, 0)

\* fill()
fill(bb) == FillLoop(padByte(bb), 0)

\* Uint8Array.prototype.slice(0, end) for end >= 0
Slice0(arr, end) == SubSeq(arr, 1, IF end < Len(arr) THEN end ELSE Len(arr))

\* toArray()
toArray(bb) ==
    LET totalBytes == bb.bytePointer + (IF bb.bitPointer > 0 THEN 1 ELSE 0)
    IN  Slice0(bb.buffer, totalBytes)

\* get length()
length(bb) == Len(bb.buffer)

(***************************************************************************)
(* The BitBuffer as a state machine: one buffer, any sequence of calls.    *)
(***************************************************************************)
\* the BitBuffer held in the state
BB == [buffer |-> buffer, bytePointer |-> bytePointer, bitPointer |-> bitPointer]

\* the cursor position in bits
Cursor == 8 * bytePointer + bitPointer

\* value written as a len-bit number, most significant bit first
BitsMSB(value, len) == [j \in 1..len |-> BitOf(value, len - j)]

EncIdle ==
    /\ data = <<>> /\ version = 1 /\ level = "M"
    /\ pc = "idle" /\ idx = 0 /\ outcome = "none"

GFIdle ==
    /\ call = [op |-> "none", a |-> 0, b |-> 0]
    /\ result = [kind |-> "none", value |-> 0]

\* new BitBuffer(n)
InitBitBuffer ==
    /\ \E n \in 1..MaxCap :
          /\ buffer = NewBitBuffer(n).buffer
          /\ bytePointer = NewBitBuffer(n).bytePointer
          /\ bitPointer = NewBitBuffer(n).bitPointer
    /\ appended = <<>>
    /\ fresh = TRUE
    /\ lastOp = "new"
    /\ EncIdle
    /\ GFIdle

SetBB(bb) ==
    /\ buffer' = bb.buffer
    /\ bytePointer' = bb.bytePointer
    /\ bitPointer' = bb.bitPointer

\* a call of appendBits(value, length)
AppendBitsCall(value, len) ==
    /\ pc = "idle"
    /\ Cursor <= MaxBits
    /\ SetBB(appendBits(BB, value, len))
    /\ appended' = IF fresh
                   THEN appended \o BitsMSB(value, EffectiveLength(value, len))
                   ELSE <<>>
    /\ lastOp' = "appendBits"
    /\ UNCHANGED <<fresh, encVars, gfVars>>

\* appendBits with the length omitted or at least the value's bit width
AppendBits ==
    \E value \in 0..MaxValue :
        \E len \in {0} \cup (realLength(value)..MaxLen) :
            AppendBitsCall(value, len)

\* a call of padByte()
PadByte ==
    /\ pc = "idle"
    /\ SetBB(padByte(BB))
    /\ appended' = <<>>
    /\ fresh' = FALSE
    /\ lastOp' = "padByte"
    /\ UNCHANGED <<encVars, gfVars>>

\* a call of fill()
Fill ==
    /\ pc = "idle"
    /\ SetBB(fill(BB))
    /\ appended' = <<>>
    /\ fresh' = FALSE
    /\ lastOp' = "fill"
    /\ UNCHANGED <<encVars, gfVars>>

Init == InitBitBuffer

Next == AppendBits \/ PadByte \/ Fill

Spec == Init /\ [][Next]_vars

(***************************************************************************)
(* Claims about the BitBuffer (specification Spec).                        *)
(***************************************************************************)
\* the stored bit at bit position p, counted from bit 0 (the most significant) of byte 0
StoredBit(p) == (buffer[(p \div 8) + 1] \div Pow2(7 - (p % 8))) % 2

\* the number of bits the storage holds
StoredBits == 8 * Len(buffer)

\* C1: after any sequence of appendBits calls on a fresh buffer (each length at least
\* the value's bit width), the stored bits are the concatenation of the appended
\* groups, every later stored bit is 0, and no appended bit is dropped.
C1_AppendsStoredExactly ==
    fresh =>
        /\ Len(appended) <= StoredBits
        /\ \A p \in 0..(StoredBits - 1) :
              StoredBit(p) = IF p < Len(appended) THEN appended[p + 1] ELSE 0

\* C2: in every state reachable by appendBits, padByte and fill, 0 <= bitPointer < 8
\* and bytePointer <= length.
C2_CursorWithinStorage ==
    /\ bitPointer \in 0..7
    /\ bytePointer <= length(BB)

\* C3: toArray() returns exactly bytePointer bytes when bitPointer = 0 and
\* bytePointer + 1 bytes otherwise, and never more than length bytes.
C3_ExtractLength ==
    /\ Len(toArray(BB)) = bytePointer + (IF bitPointer # 0 THEN 1 ELSE 0)
    /\ Len(toArray(BB)) <= length(BB)

\* the byte cursor once aligned to a byte boundary
AlignedBytes == bytePointer + (IF bitPointer > 0 THEN 1 ELSE 0)

\* what a fill() step does to a buffer whose appended bits fit in its storage
FillEffect ==
    LET n == Len(buffer)
        s == AlignedBytes
    IN  /\ Len(buffer') = n
        /\ \A k \in 1..s : buffer'[k] = buffer[k]
        /\ bitPointer > 0 => buffer'[s] % Pow2(8 - bitPointer) = 0
        /\ \A k \in 0..(n - s - 1) :
              buffer'[s + k + 1] = IF k % 2 = 0 THEN 236 ELSE 17
        /\ bytePointer' = n
        /\ bitPointer' = 0

\* C4: fill() on a buffer whose appended bits fit in its n bytes aligns to a byte,
\* leaves the bytes before the aligned cursor s unchanged, sets byte s+k to 0xEC for
\* even k and 0x11 for odd k up to n, keeps the length and ends at (n, 0); a second
\* fill() changes nothing.
C4_FillCompletes ==
    [][ /\ (lastOp' = "fill" /\ Cursor <= StoredBits) => FillEffect
        /\ (lastOp = "fill" /\ lastOp' = "fill") =>
              /\ buffer' = buffer
              /\ bytePointer' = bytePointer
              /\ bitPointer' = bitPointer ]_vars

\* C4 witness: a three-byte buffer with a partial first byte 101, filled
C4_Witness ==
    /\ lastOp = "fill"
    /\ buffer = <<160, 236, 17>>
    /\ bytePointer = 3
    /\ bitPointer = 0

(***************************************************************************)
(* The BitBuffer with appendBits given any length (specification           *)
(* SpecAnyLength): a length shorter than the value's bit width included.    *)
(***************************************************************************)
\* appendBits with the length omitted or any explicit length from 1 on
AppendBitsAnyLength ==
    \E value \in 0..MaxValue :
        \E len \in 0..MaxLen :
            AppendBitsCall(value, len)

NextAnyLength == AppendBitsAnyLength \/ PadByte \/ Fill

SpecAnyLength == Init /\ [][NextAnyLength]_vars

\* C15: appendBits(value, length) with any length >= 1 (a length smaller than the
\* value's bit width included), called at the cursor position
\* p = 8 * bytePointer + bitPointer, leaves every stored bit below p as it was and
\* moves the cursor to p + length.
C15_AppendBitsKeepsEarlierBits ==
    [][ \A value \in 0..MaxValue, len \in 1..MaxLen :
            AppendBitsCall(value, len) =>
                /\ Cursor' = Cursor + len
                /\ \A p \in 0..(Cursor - 1) :
                      p < StoredBits =>
                          /\ p < StoredBits'
                          /\ StoredBit(p)' = StoredBit(p) ]_vars

(***************************************************************************)
(* encoding.ts: encode, getCharacterCountIndicatorSize, encodeAlphanumeric *)
(***************************************************************************)
\* constants.ts, ALPHANUMERIC_ENCODING_TABLE: the 45 symbols in the order of their values
AlphanumericSymbols ==
    <<"0", "1", "2", "3", "4", "5", "6", "7", "8", "9",
      "A", "B", "C", "D", "E", "F", "G", "H", "I", "J", "K", "L", "M",
      "N", "O", "P", "Q", "R", "S", "T", "U", "V", "W", "X", "Y", "Z",
      " ", "$", "%", "*", "+", "-", ".", "/", ":">>

PermittedSymbols == {AlphanumericSymbols[k] : k \in DOMAIN AlphanumericSymbols}

ALPHANUMERIC_ENCODING_TABLE ==
    [c \in PermittedSymbols |->
        (CHOOSE k \in DOMAIN AlphanumericSymbols : AlphanumericSymbols[k] = c) - 1]

\* constants.ts, MODE_INDICATOR.ALPHANUMERIC
MODE_INDICATOR_ALPHANUMERIC == 2

\* constants.ts, DATA_CODEWORDS_BY_TYPE['1M']
DATA_CODEWORDS_1M == 16

\* data[i] for a string data: a character, or undefined past the end
noChar == "undefined"
CharAt(str, i) == IF i < Len(str) THEN str[i + 1] ELSE noChar

\* ALPHANUMERIC_ENCODING_TABLE[c]: undefined for a key the table does not hold
TableLookup(c) ==
    IF c \in DOMAIN ALPHANUMERIC_ENCODING_TABLE
    THEN JsNum(ALPHANUMERIC_ENCODING_TABLE[c])
    ELSE undefined

\* what a call did: it returned a value or threw an Error
Returned(v) == [kind |-> "return", value |-> v]
Thrown(error) == [kind |-> "throw", value |-> error]

\* getCharacterCountIndicatorSize(version, encoding)
getCharacterCountIndicatorSize(v, encoding) ==
    IF encoding = "alphanumeric"
    THEN IF v <= 9 THEN Returned(9)
         ELSE IF v <= 26 THEN Returned(11)
         ELSE IF v <= 40 THEN Returned(13)
         ELSE Thrown("UnknownVersion")
    ELSE Thrown("UnsupportedMode")

\* the group of a character pair with its two characters swapped
PairValueSwapped(currValue, nextValue) == nextValue * 45 + currValue

\* currValue * 45 + nextValue
PairValue(currValue, nextValue) == currValue * 45 + nextValue

\* the characters the inputs are made of: permitted ones (with the values 0, 1, 10
\* and 44) and two that the table does not hold
InputChars == {"0", "1", "A", ":", "a", "!"}

RECURSIVE StringsUpTo(_)
StringsUpTo(n) ==
    IF n = 0 THEN {<<>>}
    ELSE LET shorter == StringsUpTo(n - 1)
         IN  shorter \cup {Append(str, c) : str \in shorter, c \in InputChars}

\* the pattern repeated to n characters
Repeated(pattern, n) == [k \in 1..n |-> pattern[((k - 1) % Len(pattern)) + 1]]

Inputs ==
    StringsUpTo(MaxFreeLen)
    \cup {Repeated(pattern, n) : pattern \in (StringsUpTo(2) \ {<<>>}), n \in 0..MaxDataLen}
    \cup {<<"A", "C", "-", "4", "2">>}

BBIdle ==
    /\ buffer = <<>> /\ bytePointer = 0 /\ bitPointer = 0
    /\ appended = <<>> /\ fresh = TRUE /\ lastOp = "none"

\* a call of encodeAlphanumeric(data, version, errorCorrectionLevel)
InitEncode ==
    /\ \/ data \in Inputs /\ version = 1 /\ level = "M"
       \/ data = <<"A">> /\ version \in {1, 2} /\ level \in {"L", "M", "Q", "H"}
    /\ pc = "start"
    /\ idx = 0
    /\ outcome = "none"
    /\ BBIdle
    /\ GFIdle

Throw(kind) ==
    /\ pc' = "thrown"
    /\ outcome' = kind

\* the checks of the version and the error correction level
EncCheckArguments ==
    /\ pc = "start"
    /\ IF version # 1 THEN Throw("UnsupportedVersion")
       ELSE IF level # "M" THEN Throw("UnsupportedErrorCorrectionLevel")
       ELSE pc' = "header" /\ outcome' = outcome
    /\ UNCHANGED <<bbVars, data, version, level, idx, gfVars>>

\* new BitBuffer(size), the mode indicator and the character count indicator
EncHeader ==
    /\ pc = "header"
    /\ LET encoded == NewBitBuffer(DATA_CODEWORDS_1M)
           withMode == appendBits(encoded, MODE_INDICATOR_ALPHANUMERIC, 4)
           size == getCharacterCountIndicatorSize(version, "alphanumeric")
       IN  SetBB(appendBits(withMode, Len(data), size.value))
    /\ lastOp' = "appendBits"
    /\ idx' = 0
    /\ pc' = "loop"
    /\ UNCHANGED <<appended, fresh, data, version, level, outcome, gfVars>>

\* one iteration of the loop over the character pairs
EncLoop ==
    /\ pc = "loop"
    /\ idx < Len(data)
    /\ LET curr == CharAt(data, idx)
           next == CharAt(data, idx + 1)
           currValue == TableLookup(curr)
           nextValue == TableLookup(next)
       IN  IF Falsy(currValue) \/ (next # noChar /\ Falsy(nextValue))
           THEN /\ Throw("InvalidCharacter")
                /\ UNCHANGED <<buffer, bytePointer, bitPointer, idx>>
           ELSE /\ SetBB(IF next # noChar
                         THEN appendBits(BB, PairValue(currValue.n, nextValue.n), 11)
                         ELSE appendBits(BB, currValue.n, 6))
                /\ idx' = idx + 2
                /\ UNCHANGED <<pc, outcome>>
    /\ UNCHANGED <<appended, fresh, lastOp, data, version, level, gfVars>>

\* the terminator, padByte() and the return
EncTerminate ==
    /\ pc = "loop"
    /\ idx >= Len(data)
    /\ SetBB(padByte(appendBits(BB, 0, 4)))
    /\ lastOp' = "padByte"
    /\ pc' = "returned"
    /\ outcome' = "returned"
    /\ UNCHANGED <<appended, fresh, data, version, level, idx, gfVars>>

\* encode(): encoded.fill() on the buffer encodeAlphanumeric returned
EncodeFill ==
    /\ pc = "returned"
    /\ SetBB(fill(BB))
    /\ lastOp' = "fill"
    /\ pc' = "filled"
    /\ UNCHANGED <<appended, fresh, data, version, level, idx, outcome, gfVars>>

NextEncode == EncCheckArguments \/ EncHeader \/ EncLoop \/ EncTerminate \/ EncodeFill

SpecEncode == InitEncode /\ [][NextEncode]_vars

(***************************************************************************)
(* Claims about encodeAlphanumeric (specification SpecEncode).             *)
(***************************************************************************)
\* the call is encodeAlphanumeric(data, 1, 'M')
Call1M == version = 1 /\ level = "M"

\* the call has ended: it threw, or returned its buffer
Ended == pc \in {"thrown", "returned", "filled"}

\* the input holds a character that is none of the 45 permitted symbols
HasForeignCharacter == \E k \in DOMAIN data : data[k] \notin PermittedSymbols

\* C5: encodeAlphanumeric(data, 1, 'M') fails with InvalidCharacter if and only if
\* data holds a character outside the 45 permitted symbols; a string of permitted
\* symbols (values 0 through 44) is encoded without failing.
C5_InvalidCharacterIff ==
    (Call1M /\ Ended) =>
        /\ (outcome = "InvalidCharacter") <=> HasForeignCharacter
        /\ ~HasForeignCharacter => outcome = "returned"

\* the number of bits of the mode indicator, the count, the groups and the terminator
EncodedBits(n) == 4 + 9 + 11 * (n \div 2) + 6 * (n % 2) + 4

\* the bytes those bits take once aligned to a byte
EncodedBytes(n) == CeilDiv8(EncodedBits(n))

\* the pad pattern from byte index first (counted from 0) to the end of the storage
PadPatternFrom(first) ==
    \A k \in (first + 1)..Len(buffer) :
        buffer[k] = IF (k - 1 - first) % 2 = 0 THEN 236 ELSE 17

\* C6 as stated: the buffer encodeAlphanumeric returns is pad-filled after the
\* terminator and the byte alignment, up to the 16-byte capacity, with the cursor
\* at the end of the storage.
C6_ReturnedBufferPadFilled ==
    (Call1M /\ pc = "returned") =>
        /\ PadPatternFrom(EncodedBytes(Len(data)))
        /\ bytePointer = Len(buffer)
        /\ bitPointer = 0

\* C6 amended: the buffer encodeAlphanumeric returns is byte-aligned after the
\* terminator and not pad-filled: every stored byte from the cursor on is 0. It is
\* encode() that calls fill() on it: after that every stored byte from that cursor
\* position on holds 0xEC, 0x11 alternating from 0xEC, and the cursor is at or past
\* the end of the storage.
C6_PadFilledByEncode ==
    /\ (Call1M /\ pc = "returned") =>
          /\ bitPointer = 0
          /\ bytePointer = EncodedBytes(Len(data))
          /\ \A k \in (bytePointer + 1)..Len(buffer) : buffer[k] = 0
    /\ (Call1M /\ pc = "filled") =>
          /\ PadPatternFrom(EncodedBytes(Len(data)))
          /\ bitPointer = 0
          /\ bytePointer >= Len(buffer)

\* C6 witness: "A:A" encoded and filled by encode(): 5 bytes of data, then 11 pad codewords
C6_Witness ==
    /\ pc = "filled"
    /\ data = <<"A", ":", "A">>
    /\ Len(buffer) = 16
    /\ buffer[4] = 40
    /\ buffer[5] = 0
    /\ buffer[6] = 236
    /\ buffer[7] = 17
    /\ buffer[16] = 236
    /\ bytePointer = 16

RECURSIVE GroupBits(_, _)
\* the 11-bit and 6-bit groups of the characters of str from index i (counted from 0) on
GroupBits(str, i) ==
    IF i >= Len(str) THEN <<>>
    ELSE IF i + 1 < Len(str)
         THEN BitsMSB(ALPHANUMERIC_ENCODING_TABLE[str[i + 1]] * 45
                          + ALPHANUMERIC_ENCODING_TABLE[str[i + 2]], 11)
                  \o GroupBits(str, i + 2)
         ELSE BitsMSB(ALPHANUMERIC_ENCODING_TABLE[str[i + 1]], 6)

\* mode indicator 0010, the length in 9 bits, the groups, the terminator 0000
ExpectedBits(str) ==
    <<0, 0, 1, 0>> \o BitsMSB(Len(str), 9) \o GroupBits(str, 0) \o <<0, 0, 0, 0>>

\* C7: for an accepted input of n <= 20 characters the leading
\* 13 + 11*floor(n/2) + 6*(n mod 2) + 4 bits of the returned buffer are the mode
\* indicator 0010, n in 9 bits, value1*45 + value2 in 11 bits for each pair, the
\* value of a trailing single character in 6 bits, and the terminator 0000.
C7_LeadingBits ==
    (Call1M /\ pc = "returned" /\ Len(data) <= 20) =>
        /\ Len(ExpectedBits(data)) = EncodedBits(Len(data))
        /\ EncodedBits(Len(data)) <= StoredBits
        /\ \A p \in 0..(EncodedBits(Len(data)) - 1) :
              StoredBit(p) = ExpectedBits(data)[p + 1]

\* C7 witness: 'AC-42' gives 0010 000000101 00111001110 11100111001 000010 0000
C7_Witness ==
    /\ pc = "returned"
    /\ data = <<"A", "C", "-", "4", "2">>
    /\ SubSeq(buffer, 1, 6) = <<32, 41, 206, 231, 33, 0>>

\* the number of bits of the mode indicator, the count and the groups
GroupsEnd(n) == 4 + 9 + 11 * (n \div 2) + 6 * (n % 2)

\* C16: for an input of any length, the buffer encodeAlphanumeric(data, 1, 'M')
\* returns has the length 16, the data codewords of version 1 and level M, and
\* its stored bits hold every encoded group: it is not grown beyond 16 bytes and
\* no bit of a group is missing.
C16_ReturnedBufferWithinCapacity ==
    (Call1M /\ pc = "returned") =>
        /\ length(BB) = DATA_CODEWORDS_1M
        /\ GroupsEnd(Len(data)) <= StoredBits
        /\ \A p \in 13..(GroupsEnd(Len(data)) - 1) :
              StoredBit(p) = ExpectedBits(data)[p + 1]

(***************************************************************************)
(* getCharacterCountIndicatorSize as a call of its own (specification      *)
(* SpecIndicator): any integer version around 1..40 and any encoding mode.  *)
(***************************************************************************)
\* type EncodingMode
EncodingModes == {"numeric", "alphanumeric", "byte", "kanji"}

\* the versions of the calls: 1..40 and VersionMargin integers on either side
Versions == (1 - VersionMargin)..(40 + VersionMargin)

InitIndicator ==
    /\ \E v \in Versions, encoding \in EncodingModes :
          call = [op |-> "none", version |-> v, encoding |-> encoding]
    /\ result = [kind |-> "none", value |-> 0]
    /\ BBIdle
    /\ EncIdle

\* a call of getCharacterCountIndicatorSize(version, encoding)
GetCharacterCountIndicatorSize ==
    /\ call.op = "none"
    /\ call' = [call EXCEPT !.op = "getCharacterCountIndicatorSize"]
    /\ result' = getCharacterCountIndicatorSize(call.version, call.encoding)
    /\ UNCHANGED <<bbVars, encVars>>

NextIndicator == GetCharacterCountIndicatorSize

SpecIndicator == InitIndicator /\ [][NextIndicator]_vars

\* C11: getCharacterCountIndicatorSize(version, 'alphanumeric') returns 9 for the
\* versions 1..9, 11 for 10..26 and 13 for 27..40, and fails for every integer
\* version outside 1..40 (below 1 and above 40) and for every other mode.
C11_IndicatorWidth ==
    call.op = "getCharacterCountIndicatorSize" =>
        IF call.encoding = "alphanumeric" /\ call.version \in 1..40
        THEN /\ result.kind = "return"
             /\ result.value = IF call.version <= 9 THEN 9
                               ELSE IF call.version <= 26 THEN 11
                               ELSE 13
        ELSE result.kind = "throw"

(***************************************************************************)
(* types.ts: class GaloisField                                             *)
(***************************************************************************)
\* a ^ b for non-negative integers
RECURSIVE BitXor(_, _)
BitXor(a, b) ==
    IF a = 0 THEN b
    ELSE IF b = 0 THEN a
    ELSE ((a + b) % 2) + 2 * BitXor(a \div 2, b \div 2)

\* JavaScript arithmetic on numbers, NaN, -Infinity and undefined
JsAdd(u, v) ==
    IF u.type = "number" /\ v.type = "number" THEN JsNum(u.n + v.n)
    ELSE IF u.type \in {"NaN", "undefined"} \/ v.type \in {"NaN", "undefined"} THEN NaN
    ELSE NegInfinity

JsSub(u, v) ==
    IF u.type = "number" /\ v.type = "number" THEN JsNum(u.n - v.n)
    ELSE IF u.type = "-Infinity" /\ v.type = "number" THEN NegInfinity
    ELSE NaN

JsMul(u, v) ==
    IF u.type = "number" /\ v.type = "number" THEN JsNum(u.n * v.n)
    ELSE IF u.type = "-Infinity" /\ v.type = "number" /\ v.n > 0 THEN NegInfinity
    ELSE NaN

\* u % m for m > 0: the remainder has the sign of u; NaN when u is no finite number
JsMod(u, m) ==
    IF u.type = "number"
    THEN JsNum(IF u.n >= 0 THEN u.n % m ELSE 0 - ((0 - u.n) % m))
    ELSE NaN

IRREDUCIBLE_POLYNOMIAL == 285

\* new Array(512) and new Array(256): every element undefined
EmptyArray(n) == [k \in 0..(n - 1) |-> undefined]

\* x = x << 1, folded back with the irreducible polynomial: one iteration's update of x
NextPower(x) ==
    LET doubled == 2 * x
    IN  IF doubled >= 256 THEN BitXor(doubled, IRREDUCIBLE_POLYNOMIAL) ELSE doubled

\* x after k more iterations of the loop of the static initializer
RECURSIVE Iterated(_, _)
Iterated(x, k) == IF k = 0 THEN x ELSE NextPower(Iterated(x, k - 1))

\* the values of x of the iterations 0 .. n-1 of the loop, in order (index i + 1
\* holds iteration i), n a multiple of 15: built 15 iterations at a time
RECURSIVE LoopValuesUpTo(_)
LoopValuesUpTo(n) ==
    IF n = 0 THEN <<>>
    ELSE LET before == LoopValuesUpTo(n - 15)
             start == IF n = 15 THEN 1 ELSE NextPower(before[n - 15])
         IN  before \o [k \in 1..15 |-> Iterated(start, k - 1)]

LoopValues == LoopValuesUpTo(255)

\* the static initializer: expTable[i] = x and logTable[x] = i in each iteration (a
\* later iteration overwrites an earlier one), then expTable[255] and logTable[0]
Tables ==
    LET exp == [i \in 0..511 |-> IF i < 255 THEN JsNum(LoopValues[i + 1]) ELSE undefined]
        log == [x \in 0..255 |->
                   LET written == {i \in 0..254 : LoopValues[i + 1] = x}
                   IN  IF written = {} THEN undefined
                       ELSE JsNum(CHOOSE i \in written : \A j \in written : j <= i)]
    IN  [exp |-> [exp EXCEPT ![255] = exp[0]],
         log |-> [log EXCEPT ![0] = NegInfinity]]

expTable == Tables.exp
logTable == Tables.log

\* this.expTable[index]: undefined unless index is the number of an element
ExpAt(index) ==
    IF index.type = "number" /\ index.n \in DOMAIN expTable
    THEN expTable[index.n]
    ELSE undefined

\* GaloisField.add as the sum of the integers, modulo 256
addModulo256(a, b) == JsNum((a + b) % 256)

\* GaloisField.add
add(a, b) == JsNum(BitXor(a, b))

\* GaloisField.subtract
subtract(a, b) == JsNum(BitXor(a, b))

\* GaloisField.multiply with the logarithms added modulo 256
multiplyMod256(a, b) ==
    IF a = 0 \/ b = 0 THEN JsNum(0)
    ELSE ExpAt(JsMod(JsAdd(logTable[a], logTable[b]), 256))

\* GaloisField.multiply
multiply(a, b) ==
    IF a = 0 \/ b = 0 THEN JsNum(0)
    ELSE ExpAt(JsMod(JsAdd(logTable[a], logTable[b]), 255))

\* GaloisField.divide without the 255 added to the difference of the logarithms
divideUnwrapped(a, b) ==
    IF a = 0 THEN Returned(JsNum(0))
    ELSE IF b = 0 THEN Thrown("Division by zero")
    ELSE Returned(ExpAt(JsMod(JsSub(logTable[a], logTable[b]), 255)))

\* GaloisField.divide
divide(a, b) ==
    IF a = 0 THEN Returned(JsNum(0))
    ELSE IF b = 0 THEN Thrown("Division by zero")
    ELSE Returned(ExpAt(JsMod(JsAdd(JsSub(logTable[a], logTable[b]), JsNum(255)), 255)))

\* GaloisField.power with the product of logarithm and exponent taken modulo 256
powerModulo256(x, n) == ExpAt(JsMod(JsMul(logTable[x], JsNum(n)), 256))

\* GaloisField.power
power(x, n) == ExpAt(JsMod(JsMul(logTable[x], JsNum(n)), 255))

Bytes == 0..255

\* the arguments of a call of a GaloisField operation: two bytes, or for power a
\* byte and an exponent
InitField ==
    /\ \E a \in Bytes, b \in 0..(IF MaxExponent > 255 THEN MaxExponent ELSE 255) :
          call = [op |-> "none", a |-> a, b |-> b]
    /\ result = [kind |-> "none", value |-> 0]
    /\ BBIdle
    /\ EncIdle

Finish(op, res) ==
    /\ call.op = "none"
    /\ call' = [call EXCEPT !.op = op]
    /\ result' = res
    /\ UNCHANGED <<bbVars, encVars>>

Add == call.b \in Bytes /\ Finish("add", Returned(add(call.a, call.b)))

Subtract == call.b \in Bytes /\ Finish("subtract", Returned(subtract(call.a, call.b)))

Multiply == call.b \in Bytes /\ Finish("multiply", Returned(multiply(call.a, call.b)))

Divide == call.b \in Bytes /\ Finish("divide", divide(call.a, call.b))

Power == call.b \in 0..MaxExponent /\ Finish("power", Returned(power(call.a, call.b)))

NextField == Add \/ Subtract \/ Multiply \/ Divide \/ Power

SpecField == InitField /\ [][NextField]_vars

(***************************************************************************)
(* Claims about GaloisField (specification SpecField).                     *)
(***************************************************************************)
\* the product of a and b as polynomials with coefficients in GF(2)
RECURSIVE PolyMul(_, _)
PolyMul(a, b) ==
    IF b = 0 THEN 0
    ELSE BitXor(IF b % 2 = 1 THEN a ELSE 0, 2 * PolyMul(a, b \div 2))

\* the remainder of the polynomial p modulo the polynomial m of degree 8
RECURSIVE PolyMod(_, _)
PolyMod(p, m) ==
    IF p < 256 THEN p
    ELSE PolyMod(BitXor(p, m * Pow2(BinaryDigits(p) - 9)), m)

\* a byte: an integer in [0, 255]
IsByte(v) == v.type = "number" /\ v.n \in 0..255

C9_DivisionByZeroIff ==
    call.op = "divide" =>
        /\ call.b = 0 => result.kind = "throw"
        /\ call.b # 0 => result.kind = "return"

\* C10: add, subtract, multiply, divide with b # 0 and power (base 0 included)
\* each return an integer in [0, 255].
C10_FieldClosure ==
    (call.op \in {"add", "subtract", "multiply", "power"}
        \/ (call.op = "divide" /\ call.b # 0)) =>
        /\ result.kind = "return"
        /\ IsByte(result.value)

\* C12: divide is the exact inverse of multiply: for every byte a and non-zero byte
\* b, divide(multiply(a, b), b) = a and multiply(divide(a, b), b) = a; and
\* multiply(a, divide(1, a)) = 1 for every non-zero a.
C12_DivideInvertsMultiply ==
    /\ (call.op = "multiply" /\ call.b \in 1..255) =>
          divide(result.value.n, call.b) = Returned(JsNum(call.a))
    /\ (call.op = "divide" /\ call.b \in 1..255) =>
          /\ result.kind = "return"
          /\ multiply(result.value.n, call.b) = JsNum(call.a)
    /\ (call.op = "divide" /\ call.a = 1 /\ call.b \in 1..255) =>
          multiply(call.b, result.value.n) = JsNum(1)

\* C12 witness: divide(1, 2) is 142, the inverse of 2: 2 * 142 is x^8 + x^4 + x^3 + x^2,
\* which reduces to 1
C12_Witness ==
    /\ call = [op |-> "divide", a |-> 1, b |-> 2]
    /\ result = Returned(JsNum(142))
    /\ multiply(2, 142) = JsNum(1)

\* add(b, c) and multiply(a, b) of every pair of bytes
Sums == [b \in Bytes |-> [c \in Bytes |-> add(b, c)]]
Multiples == [a \in Bytes |-> [b \in Bytes |-> multiply(a, b)]]

\* C13: multiply distributes over add: for all bytes a, b, c (0 included),
\* multiply(a, add(b, c)) = add(multiply(a, b), multiply(a, c)).
C13_MultiplyDistributes ==
    call.op = "multiply" =>
        /\ result = Returned(Multiples[call.a][call.b])
        /\ \A c \in Bytes :
              Multiples[call.a][Sums[call.b][c].n]
                  = Sums[result.value.n][Multiples[call.a][c].n]

\* C13 witness: 3 * (5 + 6) = 3 * 3 = 5 and 3 * 5 + 3 * 6 = 15 + 10 = 5
C13_Witness ==
    /\ call = [op |-> "multiply", a |-> 3, b |-> 5]
    /\ result = Returned(JsNum(15))
    /\ add(5, 6) = JsNum(3)
    /\ multiply(3, 3) = JsNum(5)
    /\ multiply(3, 6) = JsNum(10)
    /\ add(15, 10) = JsNum(5)

\* v multiplied by x with multiply, k times
RECURSIVE MultipliedBy(_, _, _)
MultipliedBy(v, x, k) ==
    IF k = 0 THEN v
    ELSE LET before == MultipliedBy(v, x, k - 1)
         IN  IF before.type = "number" THEN multiply(before.n, x) ELSE undefined

\* 1 multiplied by x with multiply 0, 1, .. n-1 times, in order (index k + 1 holds
\* k multiplications), n a multiple of 15: built 15 multiplications at a time
RECURSIVE ProductsUpTo(_, _)
ProductsUpTo(x, n) ==
    IF n = 0 THEN <<>>
    ELSE LET before == ProductsUpTo(x, n - 15)
             start == IF n = 15 THEN JsNum(1) ELSE MultipliedBy(before[n - 15], x, 1)
         IN  before \o [k \in 1..15 |-> MultipliedBy(start, x, k - 1)]

\* the repeated products of every non-zero byte, up to MaxExponent multiplications
Products == [x \in 1..255 |-> ProductsUpTo(x, 15 * ((MaxExponent + 15) \div 15))]

\* C14: for every non-zero byte x and every exponent n >= 0 (n > 255 included),
\* power(x, n) is 1 multiplied by x n times with multiply; power(x, 0) = 1,
\* power(2, 255) = 1, power(2, 256) = power(2, 1), and 255 successive
\* multiplications of 1 by 2 return to 1 and do not return to 1 earlier.
C14_PowerIsRepeatedMultiply ==
    (call.op = "power" /\ call.a # 0) =>
        /\ result = Returned(Products[call.a][call.b + 1])
        /\ call.b = 0 => result.value = JsNum(1)
        /\ (call.a = 2 /\ call.b = 255) => result.value = JsNum(1)
        /\ (call.a = 2 /\ call.b = 256) => result.value = power(2, 1)
        /\ call.a = 2 =>
              /\ Products[2][255 + 1] = JsNum(1)
              /\ \A k \in 1..254 : Products[2][k + 1] # JsNum(1)

\* C14 witness: power(2, 256) is 2, as power(2, 1)
C14_Witness ==
    /\ call = [op |-> "power", a |-> 2, b |-> 256]
    /\ result = Returned(JsNum(2))
    /\ Products[2][256 + 1] = JsNum(2)

====
